---- MODULE Spec2Model ----
(***************************************************************************)
(* Model of the demo launcher (src/src/launcher/main.go).                  *)
(*                                                                         *)
(* The launcher's main goroutine is followed statement by statement (pc);  *)
(* the two goroutines it starts (browser open, duration timer), the Go     *)
(* runtime's signal delivery, and the child PHP server are the concurrent  *)
(* parts.  os.Exit terminates the process at once and does not run         *)
(* deferred functions; returning from main runs them.                      *)
(***************************************************************************)
EXTENDS Integers, Sequences, FiniteSets, TLC

\* ---------------------------------------------------------------- bounds
\* Largest allowed_demo_duration_minutes a manifest carries in the model.
MaxDuration == 2
\* Number of interrupt/terminate signals the environment sends in one run.
MaxSignals == 2

\* ------------------------------------------------------------- constants
\* Capacity of the shutdown channel: make(chan os.Signal, 1).
ChanCap == 1

\* Signals the launcher subscribes to: signal.Notify(c, os.Interrupt, SIGTERM).
NotifiedSignals == {"SIGINT", "SIGTERM"}

\* Values of runtime.GOOS; "freebsd" stands for every platform that
\* openBrowser has no case for.
Platforms == {"linux", "windows", "darwin", "freebsd"}

\* The embedded bundle, in the lexical order fs.WalkDir visits it.  A
\* path is the sequence of its components relative to the root "bundle";
\* the root itself (relPath ".") is the empty path, which the callback
\* skips.  data is the content of a file.
BundleEntries ==
    << [path |-> << >>,                              dir |-> TRUE,
        data |-> ""],
       [path |-> << "app" >>,                        dir |-> TRUE,
        data |-> ""],
       [path |-> << "app", "public" >>,              dir |-> TRUE,
        data |-> ""],
       [path |-> << "app", "public", "index.php" >>, dir |-> FALSE,
        data |-> "<?php index"],
       [path |-> << "manifest.json" >>,              dir |-> FALSE,
        data |-> "{ manifest }"] >>

\* filepath.Join(tempDir, "bundle", "manifest.json"), relative to the
\* extracted root.
ManifestPath == << "manifest.json" >>

\* filepath.Dir of a non-empty relative path.
Dir(p) == SubSeq(p, 1, Len(p) - 1)

\* The directories os.MkdirAll(p) makes sure exist: p and its ancestors.
MkdirAll(p) == { SubSeq(p, 1, i) : i \in 0..Len(p) }

\* The fields of Manifest that the launcher's control flow reads, plus
\* CleanOnExit, which it parses and never reads.
Manifests ==
    [ PHPPort                    : {0, 8000},
      WindowWidth                : {0, 800},
      WindowHeight               : {0, 600},
      CleanOnExit                : BOOLEAN,
      AllowedDemoDurationMinutes : 0..MaxDuration ]

\* var config Manifest: the zero value, before json.Unmarshal fills it.
ZeroManifest ==
    [ PHPPort |-> 0, WindowWidth |-> 0, WindowHeight |-> 0,
      CleanOnExit |-> FALSE, AllowedDemoDurationMinutes |-> 0,
      DemoModeEnvKey |-> << >>, EnvVars |-> << >> ]

\* Strings that take part in the environment are sequences of characters,
\* so that "%s=%s" and the split at the first "=" are computed.
TrueStr == << "t", "r", "u", "e" >>
KeyPath == << "P" >>
KeyDemo == << "D" >>
KeyFoo  == << "F" >>
\* A key that is not a variable name: it contains "=".
KeyBad  == << "D", "=", "x" >>
ValInherited == << "1" >>
ValConfigured == << "2" >>

\* fmt.Sprintf("%s=%s", k, v)
Entry(k, v) == k \o << "=" >> \o v

\* Position of the first "=" of an entry (0 if there is none).
EqIndex(e) ==
    IF \E i \in 1..Len(e) : e[i] = "="
       THEN CHOOSE i \in 1..Len(e) :
               e[i] = "=" /\ \A j \in 1..(i - 1) : e[j] # "="
       ELSE 0

\* The name and the value the child reads from an entry "name=value": the
\* split is at the first "=".
KeyOf(e) == SubSeq(e, 1, EqIndex(e) - 1)
ValOf(e) == SubSeq(e, EqIndex(e) + 1, Len(e))

\* What a lookup of an unset variable yields.
Unset == << "<unset>" >>

\* The value the child observes for name k when started with cmd.Env =
\* env: os/exec keeps, of entries with the same name, the last one.
Getenv(env, k) ==
    LET idx == { i \in 1..Len(env) : KeyOf(env[i]) = k }
    IN  IF idx = {} THEN Unset
        ELSE ValOf(env[CHOOSE i \in idx : \A j \in idx : j <= i])

\* The orders in which "for k, v := range config.EnvVars" may visit the
\* keys of the map.
RangeOrders(m) ==
    { q \in [1..Cardinality(DOMAIN m) -> DOMAIN m] :
        \A i, j \in DOMAIN q : q[i] = q[j] => i = j }

\* env := os.Environ(); env = append(env, "<demo key>=true"); then one
\* append per entry of EnvVars, in the order the range visits them.
BuildEnv(environ, demoKey, envVars, order) ==
    environ \o << Entry(demoKey, TrueStr) >>
            \o [i \in 1..Len(order) |-> Entry(order[i], envVars[order[i]])]

\* The environment and the manifest's environment fields of an ordinary
\* run.
DefaultEnviron == << Entry(KeyPath, ValInherited) >>
DefaultEmbeddedEnv ==
    [ DemoModeEnvKey |-> KeyDemo, EnvVars |-> (KeyFoo :> ValConfigured) ]

\* The record json.Unmarshal produces from the control fields m and the
\* environment fields e of the manifest.
Unmarshal(m, e) ==
    [ PHPPort |-> m.PHPPort, WindowWidth |-> m.WindowWidth,
      WindowHeight |-> m.WindowHeight, CleanOnExit |-> m.CleanOnExit,
      AllowedDemoDurationMinutes |-> m.AllowedDemoDurationMinutes,
      DemoModeEnvKey |-> e.DemoModeEnvKey, EnvVars |-> e.EnvVars ]

\* Ports the kernel may hand to the throwaway listener of getFreePort.
EphemeralPorts == {49152, 49153}

VARIABLES
    pc,             \* position of main
    uninstallFlag,  \* *uninstallFlag after flag.Parse()
    GOOS,           \* runtime.GOOS
    config,         \* var config Manifest
    wsExists,       \* tempDir exists on disk
    wsFiles,        \* relative paths materialised under tempDir/bundle
    wsData,         \* content of the files under tempDir/bundle, by path
    walkIdx,        \* next entry of bundleFS that fs.WalkDir will visit
    bundleFS,       \* the embedded tree (var bundleFS embed.FS)
    data,           \* data: the bytes ioutil.ReadFile returned ("" before)
    osEnviron,      \* os.Environ(): the launcher's own environment
    embeddedEnv,    \* demo_mode_env_key and env_vars of the embedded manifest
    port,           \* port (0 until chosen)
    probe,          \* throwaway listener of getFreePort: none/open/closed
    probePort,      \* port the kernel gave the throwaway listener
    bindPort,       \* port in the child's "-S 127.0.0.1:<port>" argument
    cmdEnv,         \* cmd.Env: the entries handed to the child, in order
    urlPort,        \* port in url, the address the browser is sent to
    child,          \* PHP server process: none/running/exited/killed
    c,              \* buffered channel c (sequence of pending signals)
    notified,       \* signal.Notify(c, ...) has been called
    timer,          \* duration goroutine: none/sleeping/sending/done
    timerLeft,      \* minutes the duration goroutine still sleeps
    browser,        \* browser goroutine: none/sleeping/app/fallback/done
    candIdx,        \* next app-mode candidate openBrowser will try
    spawned,        \* browser commands successfully started, in order
    tried,          \* browser commands openBrowser attempted, in order
    exitCode,       \* process exit status; -1 while running or if signaled
    failure,        \* which startup step failed ("none" if none)
    killCount,      \* number of cmd.Process.Kill() calls made
    removeCount,    \* number of os.RemoveAll(tempDir) calls made
    log,            \* set of messages printed so far
    signalsSent     \* signals the environment has sent so far

vars == << pc, uninstallFlag, GOOS, config, wsExists, wsFiles, wsData,
           walkIdx, bundleFS, data, osEnviron, embeddedEnv, port, probe,
           probePort, bindPort, cmdEnv, urlPort, child, c, notified, timer,
           timerLeft, browser, candIdx,
           spawned, tried, exitCode, failure, killCount, removeCount, log,
           signalsSent >>

\* Variable groups, for UNCHANGED.
cfgVars     == << uninstallFlag, GOOS, config, data, bundleFS, osEnviron,
                 embeddedEnv >>
wsVars      == << wsExists, wsFiles, wsData, walkIdx >>
portVars    == << port, probe, probePort >>
cmdVars     == << bindPort, cmdEnv, urlPort >>
chanVars    == << c, notified >>
timerVars   == << timer, timerLeft >>
browserVars == << browser, candIdx, spawned, tried >>
countVars   == << killCount, removeCount >>

\* The launcher process is alive: main has neither returned, nor called
\* os.Exit, nor been terminated by a signal.
Alive == pc \notin {"done", "failed", "killed"}

\* The state at the entry of main, but for the flag, the platform and the
\* environment.
InitMain ==
    /\ pc = "mkdirTemp"
    /\ config = ZeroManifest
    /\ wsExists = FALSE
    /\ wsFiles = {}
    /\ wsData = << >>
    /\ walkIdx = 1
    /\ bundleFS = BundleEntries
    /\ data = ""
    /\ port = 0
    /\ probe = "none"
    /\ probePort = 0
    /\ bindPort = 0
    /\ cmdEnv = << >>
    /\ urlPort = 0
    /\ child = "none"
    /\ c = << >>
    /\ notified = FALSE
    /\ timer = "none"
    /\ timerLeft = 0
    /\ browser = "none"
    /\ candIdx = 1
    /\ spawned = << >>
    /\ tried = << >>
    /\ exitCode = -1
    /\ failure = "none"
    /\ killCount = 0
    /\ removeCount = 0
    /\ log = {}
    /\ signalsSent = 0

Init ==
    /\ InitMain
    /\ uninstallFlag \in BOOLEAN
    /\ GOOS \in Platforms
    /\ osEnviron = DefaultEnviron
    /\ embeddedEnv = DefaultEmbeddedEnv

\* Fatal with the exit status dropped: os.Exit(0) in place of os.Exit(1).
Fatal_ExitZero(step, msg) ==
    /\ pc' = "failed"
    /\ exitCode' = 0
    /\ failure' = step
    /\ log' = log \cup {msg}

\* fmt.Printf(...); os.Exit(1): the process ends with status 1 and no
\* deferred function runs.
Fatal(step, msg) ==
    /\ pc' = "failed"
    /\ exitCode' = 1
    /\ failure' = step
    /\ log' = log \cup {msg}

\* MkdirTemp followed by the manifest load instead of the extraction.
MkdirTemp_ConfigFirst ==
    /\ pc = "mkdirTemp"
    /\ \/ /\ wsExists' = TRUE
          /\ pc' = "readManifest"
          /\ UNCHANGED << exitCode, failure, log >>
       \/ /\ Fatal("mkdirTemp", "Error creating temp dir")
          /\ UNCHANGED wsExists
    /\ UNCHANGED << cfgVars, wsFiles, wsData, walkIdx, portVars, cmdVars,
                    child, chanVars, timerVars, browserVars, countVars,
                    signalsSent >>

\* tempDir, err := os.MkdirTemp(...); on success the deferred cleanup is
\* registered.
MkdirTemp ==
    /\ pc = "mkdirTemp"
    /\ \/ /\ wsExists' = TRUE
          /\ pc' = "extract"
          /\ UNCHANGED << exitCode, failure, log >>
       \/ /\ Fatal("mkdirTemp", "Error creating temp dir")
          /\ UNCHANGED wsExists
    /\ UNCHANGED << cfgVars, wsFiles, wsData, walkIdx, portVars, cmdVars,
                    child, chanVars,
                    timerVars, browserVars, countVars, signalsSent >>

\* The paths and the file contents under tempDir/bundle after the walk
\* callback has handled entry e without error: the root is made by the
\* os.MkdirAll that precedes the walk, a directory by os.MkdirAll, a file
\* by os.MkdirAll of its parent and ioutil.WriteFile of its data.
FilesAfter(files, e) ==
    IF e.dir THEN files \cup MkdirAll(e.path)
    ELSE files \cup MkdirAll(Dir(e.path)) \cup {e.path}

DataAfter(contents, e) ==
    IF e.dir THEN contents
    ELSE [ p \in DOMAIN contents \cup {e.path} |->
             IF p = e.path THEN e.data ELSE contents[p] ]

\* ExtractEntry writing every file directly under tempDir/bundle, by its
\* base name (the relative directory is dropped from destPath).
ExtractEntry_Flatten ==
    /\ pc = "extract"
    /\ walkIdx <= Len(bundleFS)
    /\ \/ /\ LET e == bundleFS[walkIdx]
                 f == [ path |-> IF e.dir \/ e.path = << >> THEN e.path
                                 ELSE << e.path[Len(e.path)] >>,
                        dir |-> e.dir, data |-> e.data ]
             IN  /\ wsFiles' = FilesAfter(wsFiles, f)
                 /\ wsData' = DataAfter(wsData, f)
          /\ walkIdx' = walkIdx + 1
          /\ UNCHANGED << pc, exitCode, failure, log >>
       \/ /\ Fatal("extract", "Error extracting bundle")
          /\ UNCHANGED << wsFiles, wsData, walkIdx >>
    /\ UNCHANGED << cfgVars, wsExists, portVars, cmdVars, child, chanVars,
                    timerVars, browserVars, countVars, signalsSent >>

\* One callback of fs.WalkDir inside extractBundle (the initial
\* os.MkdirAll(tempDir/bundle) is the visit of entry ".").  A failing
\* entry makes extractBundle return the error and main exit.
ExtractEntry ==
    /\ pc = "extract"
    /\ walkIdx <= Len(bundleFS)
    /\ \/ /\ wsFiles' = FilesAfter(wsFiles, bundleFS[walkIdx])
          /\ wsData' = DataAfter(wsData, bundleFS[walkIdx])
          /\ walkIdx' = walkIdx + 1
          /\ UNCHANGED << pc, exitCode, failure, log >>
       \/ /\ Fatal("extract", "Error extracting bundle")
          /\ UNCHANGED << wsFiles, wsData, walkIdx >>
    /\ UNCHANGED << cfgVars, wsExists, portVars, cmdVars, child, chanVars,
                    timerVars,
                    browserVars, countVars, signalsSent >>

\* extractBundle returned nil.
ExtractDone ==
    /\ pc = "extract"
    /\ walkIdx > Len(bundleFS)
    /\ pc' = "readManifest"
    /\ UNCHANGED << cfgVars, wsVars, portVars, cmdVars, child, chanVars,
                    timerVars,
                    browserVars, exitCode, failure, countVars, log,
                    signalsSent >>

\* data, err := ioutil.ReadFile(tempDir/bundle/manifest.json)
ReadManifest ==
    /\ pc = "readManifest"
    /\ \/ /\ ManifestPath \in DOMAIN wsData
          /\ data' = wsData[ManifestPath]
          /\ pc' = "parseManifest"
          /\ UNCHANGED << exitCode, failure, log >>
       \/ /\ Fatal("readManifest", "Error reading manifest")
          /\ UNCHANGED data
    /\ UNCHANGED << uninstallFlag, GOOS, config, bundleFS, osEnviron,
                    embeddedEnv, wsVars, portVars, cmdVars, child, chanVars,
                    timerVars,
                    browserVars, countVars, signalsSent >>

\* json.Unmarshal(data, &config)
ParseManifest ==
    /\ pc = "parseManifest"
    /\ \/ /\ \E m \in Manifests : config' = Unmarshal(m, embeddedEnv)
          /\ pc' = "uninstall"
          /\ UNCHANGED << exitCode, failure, log >>
       \/ /\ Fatal("parseManifest", "Error parsing manifest")
          /\ UNCHANGED config
    /\ UNCHANGED << uninstallFlag, GOOS, data, bundleFS, osEnviron,
                    embeddedEnv, wsVars, portVars, cmdVars, child, chanVars,
                    timerVars, browserVars, countVars, signalsSent >>

\* HandleUninstall leaving with os.Exit(0) instead of return: no deferred
\* function runs.
HandleUninstall_ExitZero ==
    /\ pc = "uninstall"
    /\ IF uninstallFlag
          THEN /\ pc' = "done"
               /\ exitCode' = 0
               /\ log' = log \cup {"runs from temporary storage"}
          ELSE /\ pc' = "findPort"
               /\ UNCHANGED << log, exitCode >>
    /\ UNCHANGED << cfgVars, wsVars, portVars, cmdVars, child, chanVars,
                    timerVars, browserVars, failure, countVars,
                    signalsSent >>

\* if *uninstallFlag { fmt.Println(...); return }
HandleUninstall ==
    /\ pc = "uninstall"
    /\ IF uninstallFlag
          THEN /\ pc' = "return"
               /\ log' = log \cup {"runs from temporary storage"}
          ELSE /\ pc' = "findPort"
               /\ UNCHANGED log
    /\ UNCHANGED << cfgVars, wsVars, portVars, cmdVars, child, chanVars,
                    timerVars,
                    browserVars, exitCode, failure, countVars, signalsSent >>

\* FindPort with the configured port ignored: the probe is always used.
FindPort_AlwaysProbe ==
    /\ pc = "findPort"
    /\ port' = config.PHPPort
    /\ pc' = "getFreePort"
    /\ UNCHANGED << cfgVars, wsVars, probe, probePort, cmdVars, child,
                    chanVars, timerVars, browserVars, exitCode, failure,
                    countVars, log, signalsSent >>

\* port := config.PHPPort; if port == 0 { port, err = getFreePort() }
FindPort ==
    /\ pc = "findPort"
    /\ port' = config.PHPPort
    /\ pc' = IF config.PHPPort = 0 THEN "getFreePort" ELSE "startServer"
    /\ UNCHANGED << cfgVars, wsVars, probe, probePort, cmdVars, child,
                    chanVars, timerVars, browserVars, exitCode, failure,
                    countVars, log, signalsSent >>

\* GetFreePortListen with the os.Exit(1) missing after the error print:
\* main goes on with port 0.
GetFreePortListen_NoExit ==
    /\ pc = "getFreePort"
    /\ probe = "none"
    /\ \/ /\ \E p \in EphemeralPorts : probePort' = p
          /\ probe' = "open"
          /\ UNCHANGED << pc, exitCode, failure, log >>
       \/ /\ pc' = "startServer"
          /\ failure' = "findPort"
          /\ log' = log \cup {"Error finding free port"}
          /\ UNCHANGED << probe, probePort, exitCode >>
    /\ UNCHANGED << cfgVars, wsVars, port, cmdVars, child, chanVars,
                    timerVars, browserVars, countVars, signalsSent >>

\* getFreePort up to net.ListenTCP on localhost:0: the kernel picks the
\* port of the throwaway listener, or resolving/listening fails and main
\* exits.
GetFreePortListen ==
    /\ pc = "getFreePort"
    /\ probe = "none"
    /\ \/ /\ \E p \in EphemeralPorts : probePort' = p
          /\ probe' = "open"
          /\ UNCHANGED << pc, exitCode, failure, log >>
       \/ /\ Fatal("findPort", "Error finding free port")
          /\ UNCHANGED << probe, probePort >>
    /\ UNCHANGED << cfgVars, wsVars, port, cmdVars, child, chanVars,
                    timerVars, browserVars, countVars, signalsSent >>

\* getFreePort returns l.Addr().Port; the deferred l.Close() runs before
\* main gets the value.
GetFreePortReturn ==
    /\ pc = "getFreePort"
    /\ probe = "open"
    /\ probe' = "closed"
    /\ port' = probePort
    /\ pc' = "startServer"
    /\ UNCHANGED << cfgVars, wsVars, probePort, cmdVars, child, chanVars,
                    timerVars, browserVars, exitCode, failure, countVars,
                    log, signalsSent >>

\* StartServer with the configured variables put in front: the inherited
\* environment and the demo flag are appended after them.
StartServer_EnvVarsFirst ==
    /\ pc = "startServer"
    /\ bindPort' = port
    /\ \E order \in RangeOrders(config.EnvVars) :
          cmdEnv' = [i \in 1..Len(order) |->
                        Entry(order[i], config.EnvVars[order[i]])]
                    \o osEnviron
                    \o << Entry(config.DemoModeEnvKey, TrueStr) >>
    /\ \/ /\ child' = "running"
          /\ pc' = "goBrowser"
          /\ log' = log \cup {"Server started"}
          /\ UNCHANGED << exitCode, failure >>
       \/ /\ Fatal("startServer", "Error starting PHP server")
          /\ UNCHANGED child
    /\ UNCHANGED << cfgVars, wsVars, portVars, urlPort, chanVars, timerVars,
                    browserVars, countVars, signalsSent >>

\* cmd := exec.Command(phpBin, "-S", "127.0.0.1:<port>", ...); cmd.Env =
\* env; cmd.Start()
StartServer ==
    /\ pc = "startServer"
    /\ bindPort' = port
    /\ \E order \in RangeOrders(config.EnvVars) :
          cmdEnv' = BuildEnv(osEnviron, config.DemoModeEnvKey,
                             config.EnvVars, order)
    /\ \/ /\ child' = "running"
          /\ pc' = "goBrowser"
          /\ log' = log \cup {"Server started"}
          /\ UNCHANGED << exitCode, failure >>
       \/ /\ Fatal("startServer", "Error starting PHP server")
          /\ UNCHANGED child
    /\ UNCHANGED << cfgVars, wsVars, portVars, urlPort, chanVars, timerVars,
                    browserVars, countVars, signalsSent >>

\* url := "http://127.0.0.1:<port><landing page>";
\* go func() { time.Sleep(1 * time.Second); openBrowser(url, config) }()
GoBrowser ==
    /\ pc = "goBrowser"
    /\ urlPort' = port
    /\ browser' = "sleeping"
    /\ pc' = "notify"
    /\ UNCHANGED << cfgVars, wsVars, portVars, bindPort, cmdEnv, child,
                    chanVars, timerVars,
                    candIdx, spawned, tried, exitCode, failure, countVars, log,
                    signalsSent >>

\* c := make(chan os.Signal, 1); signal.Notify(c, os.Interrupt, SIGTERM)
Notify ==
    /\ pc = "notify"
    /\ notified' = TRUE
    /\ pc' = "goTimer"
    /\ UNCHANGED << cfgVars, wsVars, portVars, cmdVars, child, c, timerVars,
                    browserVars, exitCode, failure, countVars, log,
                    signalsSent >>

\* GoTimer with the guard dropped: the goroutine is started for every
\* duration, 0 included.
GoTimer_AlwaysStart ==
    /\ pc = "goTimer"
    /\ timer' = "sleeping"
    /\ timerLeft' = config.AllowedDemoDurationMinutes
    /\ pc' = "wait"
    /\ UNCHANGED << cfgVars, wsVars, portVars, cmdVars, child, chanVars,
                    browserVars, exitCode, failure, countVars, log,
                    signalsSent >>

\* GoTimer with the guard off by one (> 1 in place of > 0).
GoTimer_OffByOne ==
    /\ pc = "goTimer"
    /\ IF config.AllowedDemoDurationMinutes > 1
          THEN /\ timer' = "sleeping"
               /\ timerLeft' = config.AllowedDemoDurationMinutes
          ELSE UNCHANGED timerVars
    /\ pc' = "wait"
    /\ UNCHANGED << cfgVars, wsVars, portVars, cmdVars, child, chanVars,
                    browserVars,
                    exitCode, failure, countVars, log, signalsSent >>

\* if config.AllowedDemoDurationMinutes > 0 { go func() {...}() }
GoTimer ==
    /\ pc = "goTimer"
    /\ IF config.AllowedDemoDurationMinutes > 0
          THEN /\ timer' = "sleeping"
               /\ timerLeft' = config.AllowedDemoDurationMinutes
          ELSE UNCHANGED timerVars
    /\ pc' = "wait"
    /\ UNCHANGED << cfgVars, wsVars, portVars, cmdVars, child, chanVars,
                    browserVars,
                    exitCode, failure, countVars, log, signalsSent >>

\* Receive with the workspace removed as soon as the trigger arrives,
\* ahead of the kill.
Receive_RemoveFirst ==
    /\ pc = "wait"
    /\ Len(c) > 0
    /\ c' = Tail(c)
    /\ pc' = "kill"
    /\ log' = log \cup {"Shutting down..."}
    /\ wsExists' = FALSE
    /\ wsFiles' = {}
    /\ wsData' = << >>
    /\ removeCount' = removeCount + 1
    /\ UNCHANGED << cfgVars, walkIdx, portVars, cmdVars, child, notified,
                    timerVars,
                    browserVars, exitCode, failure, killCount, signalsSent >>

\* <-c ; fmt.Println("Shutting down...")
Receive ==
    /\ pc = "wait"
    /\ Len(c) > 0
    /\ c' = Tail(c)
    /\ pc' = "kill"
    /\ log' = log \cup {"Shutting down..."}
    /\ UNCHANGED << cfgVars, wsVars, portVars, cmdVars, child, notified,
                    timerVars,
                    browserVars, exitCode, failure, countVars, signalsSent >>

\* KillServer inside a loop over the channel: after the kill, main goes
\* back to receive whatever trigger is still pending.
KillServer_Redrain ==
    /\ pc = "kill"
    /\ killCount' = killCount + 1
    /\ \/ /\ child = "running"
          /\ child' = "killed"
          /\ UNCHANGED log
       \/ /\ child # "running"
          /\ UNCHANGED child
          /\ \/ log' = log \cup {"Error killing server"}
             \/ UNCHANGED log
    /\ pc' = IF Len(c) > 0 THEN "wait" ELSE "return"
    /\ UNCHANGED << cfgVars, wsVars, portVars, cmdVars, chanVars, timerVars,
                    browserVars, exitCode, failure, removeCount,
                    signalsSent >>

\* KillServer with a failed kill treated like a startup error (os.Exit(1)).
KillServer_FatalOnError ==
    /\ pc = "kill"
    /\ killCount' = killCount + 1
    /\ \/ /\ child = "running"
          /\ child' = "killed"
          /\ pc' = "return"
          /\ UNCHANGED << log, exitCode, failure >>
       \/ /\ child # "running"
          /\ UNCHANGED child
          /\ \/ Fatal("kill", "Error killing server")
             \/ /\ pc' = "return"
                /\ UNCHANGED << log, exitCode, failure >>
    /\ UNCHANGED << cfgVars, wsVars, portVars, cmdVars, chanVars, timerVars,
                    browserVars, removeCount, signalsSent >>

\* if err := cmd.Process.Kill(); err != nil { fmt.Printf(...) }
\* Killing a running child ends it.  When the child has already exited,
\* Kill reports an error or not depending on the platform; the error is
\* only printed.
KillServer ==
    /\ pc = "kill"
    /\ killCount' = killCount + 1
    /\ \/ /\ child = "running"
          /\ child' = "killed"
          /\ UNCHANGED log
       \/ /\ child # "running"
          /\ UNCHANGED child
          /\ \/ log' = log \cup {"Error killing server"}
             \/ UNCHANGED log
    /\ pc' = "return"
    /\ UNCHANGED << cfgVars, wsVars, portVars, cmdVars, chanVars, timerVars,
                    browserVars, exitCode, failure, removeCount,
                    signalsSent >>

\* ReturnFromMain with the removal gated on config.CleanOnExit.
ReturnFromMain_CleanOnExitOnly ==
    /\ pc = "return"
    /\ log' = log \cup {"Cleaning up..."}
    /\ IF config.CleanOnExit
          THEN /\ wsExists' = FALSE
               /\ wsFiles' = {}
               /\ wsData' = << >>
               /\ removeCount' = removeCount + 1
          ELSE UNCHANGED << wsExists, wsFiles, wsData, removeCount >>
    /\ exitCode' = 0
    /\ pc' = "done"
    /\ UNCHANGED << cfgVars, walkIdx, portVars, cmdVars, child, chanVars,
                    timerVars,
                    browserVars, failure, killCount, signalsSent >>

\* main returns: the deferred func prints "Cleaning up..." and calls
\* os.RemoveAll(tempDir); then the process exits with status 0.
ReturnFromMain ==
    /\ pc = "return"
    /\ log' = log \cup {"Cleaning up..."}
    /\ wsExists' = FALSE
    /\ wsFiles' = {}
    /\ wsData' = << >>
    /\ removeCount' = removeCount + 1
    /\ exitCode' = 0
    /\ pc' = "done"
    /\ UNCHANGED << cfgVars, walkIdx, portVars, cmdVars, child, chanVars,
                    timerVars,
                    browserVars, failure, killCount, signalsSent >>

\* An interrupt/terminate signal reaches the launcher before
\* signal.Notify was called: the Go runtime's default action ends the
\* process at once; no deferred function runs and nothing is killed.
SignalDefault ==
    /\ Alive
    /\ ~notified
    /\ signalsSent < MaxSignals
    /\ \E s \in NotifiedSignals : TRUE
    /\ signalsSent' = signalsSent + 1
    /\ pc' = "killed"
    /\ UNCHANGED << cfgVars, wsVars, portVars, cmdVars, child, chanVars,
                    timerVars,
                    browserVars, exitCode, failure, countVars, log >>

\* A signal reaches the launcher after signal.Notify: the runtime does a
\* non-blocking send on c, dropping the signal when the buffer is full.
SignalNotified ==
    /\ Alive
    /\ notified
    /\ signalsSent < MaxSignals
    /\ signalsSent' = signalsSent + 1
    /\ \E s \in NotifiedSignals :
          c' = IF Len(c) < ChanCap THEN Append(c, s) ELSE c
    /\ UNCHANGED << pc, cfgVars, wsVars, portVars, cmdVars, child, notified,
                    timerVars, browserVars, exitCode, failure, countVars,
                    log >>

\* One minute of time.Sleep(AllowedDemoDurationMinutes * time.Minute).
TimerTick ==
    /\ Alive
    /\ timer = "sleeping"
    /\ timerLeft > 0
    /\ timerLeft' = timerLeft - 1
    /\ UNCHANGED << pc, cfgVars, wsVars, portVars, cmdVars, child, chanVars,
                    timer,
                    browserVars, exitCode, failure, countVars, log,
                    signalsSent >>

\* The sleep is over: fmt.Println("Demo duration expired.")
TimerExpire ==
    /\ Alive
    /\ timer = "sleeping"
    /\ timerLeft = 0
    /\ timer' = "sending"
    /\ log' = log \cup {"Demo duration expired."}
    /\ UNCHANGED << pc, cfgVars, wsVars, portVars, cmdVars, child, chanVars,
                    timerLeft, browserVars, exitCode, failure, countVars,
                    signalsSent >>

\* c <- os.Interrupt : a blocking send, possible when the buffer has room.
TimerSend ==
    /\ Alive
    /\ timer = "sending"
    /\ Len(c) < ChanCap
    /\ c' = Append(c, "SIGINT")
    /\ timer' = "done"
    /\ UNCHANGED << pc, cfgVars, wsVars, portVars, cmdVars, child, notified,
                    timerLeft, browserVars, exitCode, failure, countVars,
                    log, signalsSent >>

\* ChildExits with the launcher watching the child: the exit is posted on
\* c, as a goroutine around cmd.Wait() would do.
ChildExits_Triggers ==
    /\ Alive
    /\ child = "running"
    /\ child' = "exited"
    /\ c' = IF Len(c) < ChanCap THEN Append(c, "SIGINT") ELSE c
    /\ UNCHANGED << pc, cfgVars, wsVars, portVars, cmdVars, notified,
                    timerVars, browserVars, exitCode, failure, countVars,
                    log, signalsSent >>

\* The PHP server exits on its own; the launcher never calls Wait.
ChildExits ==
    /\ Alive
    /\ child = "running"
    /\ child' = "exited"
    /\ UNCHANGED << pc, cfgVars, wsVars, portVars, cmdVars, chanVars,
                    timerVars,
                    browserVars, exitCode, failure, countVars, log,
                    signalsSent >>

\* App-mode browsers openBrowser tries on each platform, in order.
AppCandidates(goos) ==
    IF goos = "windows" THEN << "chrome", "msedge" >>
    ELSE IF goos = "linux" THEN << "google-chrome" >>
    ELSE << >>

\* Default URL opener of each platform; "" where the switch has no case.
DefaultOpener(goos) ==
    IF goos = "linux" THEN "xdg-open"
    ELSE IF goos = "windows" THEN "rundll32"
    ELSE IF goos = "darwin" THEN "open"
    ELSE ""

\* time.Sleep(1 * time.Second) is over and openBrowser is entered.
BrowserWake ==
    /\ Alive
    /\ browser = "sleeping"
    /\ browser' = IF config.WindowWidth > 0 /\ config.WindowHeight > 0
                     /\ Len(AppCandidates(GOOS)) > 0
                  THEN "app" ELSE "fallback"
    /\ UNCHANGED << pc, cfgVars, wsVars, portVars, cmdVars, child, chanVars,
                    timerVars, candIdx, spawned, tried, exitCode, failure,
                    countVars, log, signalsSent >>

\* BrowserTryApp without the "if err == nil { return }": a successful
\* spawn is followed by the next candidate all the same.
BrowserTryApp_NoReturn ==
    /\ Alive
    /\ browser = "app"
    /\ tried' = Append(tried, AppCandidates(GOOS)[candIdx])
    /\ candIdx' = candIdx + 1
    /\ browser' = IF candIdx < Len(AppCandidates(GOOS))
                  THEN "app" ELSE "fallback"
    /\ \/ spawned' = Append(spawned, AppCandidates(GOOS)[candIdx])
       \/ UNCHANGED spawned
    /\ UNCHANGED << pc, cfgVars, wsVars, portVars, cmdVars, child, chanVars,
                    timerVars, exitCode, failure, countVars, log,
                    signalsSent >>

\* err = exec.Command(<app-mode browser>, ...).Start(); if err == nil { return }
BrowserTryApp ==
    /\ Alive
    /\ browser = "app"
    /\ tried' = Append(tried, AppCandidates(GOOS)[candIdx])
    /\ \/ /\ spawned' = Append(spawned, AppCandidates(GOOS)[candIdx])
          /\ browser' = "done"
          /\ UNCHANGED candIdx
       \/ /\ candIdx' = candIdx + 1
          /\ browser' = IF candIdx < Len(AppCandidates(GOOS))
                        THEN "app" ELSE "fallback"
          /\ UNCHANGED spawned
    /\ UNCHANGED << pc, cfgVars, wsVars, portVars, cmdVars, child, chanVars,
                    timerVars, exitCode, failure, countVars, log,
                    signalsSent >>

\* BrowserFallback with a failed open treated as fatal (os.Exit(1)).
BrowserFallback_Fatal ==
    /\ Alive
    /\ browser = "fallback"
    /\ browser' = "done"
    /\ IF DefaultOpener(GOOS) = ""
          THEN /\ Fatal("openBrowser", "Error opening browser")
               /\ UNCHANGED << spawned, tried >>
          ELSE /\ tried' = Append(tried, DefaultOpener(GOOS))
               /\ \/ /\ spawned' = Append(spawned, DefaultOpener(GOOS))
                     /\ UNCHANGED << pc, exitCode, failure, log >>
                  \/ /\ Fatal("openBrowser", "Error opening browser")
                     /\ UNCHANGED spawned
    /\ UNCHANGED << cfgVars, wsVars, portVars, cmdVars, child, chanVars,
                    timerVars, candIdx, countVars, signalsSent >>

\* The fallback switch and the final error print.
BrowserFallback ==
    /\ Alive
    /\ browser = "fallback"
    /\ browser' = "done"
    /\ IF DefaultOpener(GOOS) = ""
          THEN /\ log' = log \cup {"Error opening browser"}
               /\ UNCHANGED << spawned, tried >>
          ELSE /\ tried' = Append(tried, DefaultOpener(GOOS))
               /\ \/ /\ spawned' = Append(spawned, DefaultOpener(GOOS))
                     /\ UNCHANGED log
                  \/ /\ log' = log \cup {"Error opening browser"}
                     /\ UNCHANGED spawned
    /\ UNCHANGED << pc, cfgVars, wsVars, portVars, cmdVars, child, chanVars,
                    timerVars, candIdx, exitCode, failure, countVars,
                    signalsSent >>

Next ==
    \/ MkdirTemp
    \/ ExtractEntry
    \/ ExtractDone
    \/ ReadManifest
    \/ ParseManifest
    \/ HandleUninstall
    \/ FindPort
    \/ GetFreePortListen
    \/ GetFreePortReturn
    \/ StartServer
    \/ GoBrowser
    \/ Notify
    \/ GoTimer
    \/ Receive
    \/ KillServer
    \/ ReturnFromMain
    \/ SignalDefault
    \/ SignalNotified
    \/ TimerTick
    \/ TimerExpire
    \/ TimerSend
    \/ ChildExits
    \/ BrowserWake
    \/ BrowserTryApp
    \/ BrowserFallback

Spec == Init /\ [][Next]_vars


\* The steps of the main goroutine, and of the duration goroutine.
Main ==
    \/ MkdirTemp \/ ExtractEntry \/ ExtractDone \/ ReadManifest
    \/ ParseManifest \/ HandleUninstall \/ FindPort \/ GetFreePortListen
    \/ GetFreePortReturn \/ StartServer
    \/ GoBrowser \/ Notify \/ GoTimer \/ Receive \/ KillServer
    \/ ReturnFromMain

DurationTimer == TimerTick \/ TimerExpire \/ TimerSend

\* The Go scheduler runs every runnable goroutine eventually: main and the
\* duration goroutine keep taking their steps while they are not blocked.
\* Signals, the child's own exit and the browser are not forced to happen.
FairSpec == Spec /\ WF_vars(Main) /\ WF_vars(DurationTimer)

\* ---------------------------------------------------------------------
\* The start-up of a normal invocation, from the entry of main to
\* cmd.Start(), over a range of inherited environments and of
\* demo_mode_env_key / env_vars values in the embedded manifest.

\* os.Environ() holding the variables of S, each with the inherited value.
EnvironOf(S) ==
    (IF KeyPath \in S THEN << Entry(KeyPath, ValInherited) >> ELSE << >>)
    \o (IF KeyDemo \in S THEN << Entry(KeyDemo, ValInherited) >> ELSE << >>)
    \o (IF KeyFoo \in S THEN << Entry(KeyFoo, ValInherited) >> ELSE << >>)

InheritedEnvs == { EnvironOf(S) : S \in SUBSET {KeyPath, KeyDemo, KeyFoo} }

EmbeddedEnvs ==
    { [ DemoModeEnvKey |-> k, EnvVars |-> [ x \in S |-> ValConfigured ] ] :
        k \in {KeyDemo, KeyPath},
        S \in SUBSET {KeyPath, KeyDemo, KeyFoo, KeyBad} }

EnvInit ==
    /\ InitMain
    /\ uninstallFlag = FALSE
    /\ GOOS = "linux"
    /\ osEnviron \in InheritedEnvs
    /\ embeddedEnv \in EmbeddedEnvs

Setup ==
    \/ MkdirTemp
    \/ ExtractEntry
    \/ ExtractDone
    \/ ReadManifest
    \/ ParseManifest
    \/ HandleUninstall
    \/ FindPort
    \/ GetFreePortListen
    \/ GetFreePortReturn
    \/ StartServer

EnvSpec == EnvInit /\ [][Setup]_vars

TypeOK ==
    /\ pc \in {"mkdirTemp", "extract", "readManifest", "parseManifest",
               "uninstall", "findPort", "getFreePort", "startServer",
               "goBrowser", "notify",
               "goTimer", "wait", "kill", "return", "done", "failed",
               "killed"}
    /\ uninstallFlag \in BOOLEAN
    /\ GOOS \in Platforms
    /\ \/ config = ZeroManifest
       \/ \E m \in Manifests : config = Unmarshal(m, embeddedEnv)
    /\ wsExists \in BOOLEAN
    /\ wsFiles \subseteq {BundleEntries[i].path : i \in 1..Len(BundleEntries)}
    /\ DOMAIN wsData \subseteq wsFiles
    /\ walkIdx \in 1..(Len(BundleEntries) + 1)
    /\ data \in {"", "{ manifest }"}
    /\ port \in {0, 8000} \cup EphemeralPorts
    /\ probePort \in {0} \cup EphemeralPorts
    /\ bindPort \in {0, 8000} \cup EphemeralPorts
    /\ urlPort \in {0, 8000} \cup EphemeralPorts
    /\ probe \in {"none", "open", "closed"}
    /\ child \in {"none", "running", "exited", "killed"}
    /\ c \in Seq(NotifiedSignals) /\ Len(c) <= ChanCap
    /\ notified \in BOOLEAN
    /\ timer \in {"none", "sleeping", "sending", "done"}
    /\ timerLeft \in 0..(MaxDuration + 1)
    /\ browser \in {"none", "sleeping", "app", "fallback", "done"}
    /\ candIdx \in 1..3
    /\ Len(spawned) <= 1
    /\ Len(tried) <= 3
    /\ exitCode \in {-1, 0, 1}
    /\ killCount \in Nat
    /\ removeCount \in Nat
    /\ signalsSent \in 0..(MaxSignals + 1)

\* ------------------------------------------------------- lifecycle states
\* Serving: every watcher is installed and main is blocked on <-c.
Serving == pc = "wait"
\* ShuttingDown: a trigger has been received from c.
ShutdownBegun == "Shutting down..." \in log
\* Terminated: main returned.  Failed: main called os.Exit(1).
Terminated == pc = "done"
Failed == pc = "failed"

\* ------------------------------------------------------------------ C1
\* C1 (as claimed): after any setup failure that follows the creation of
\* the workspace, the workspace is gone when the launcher exits with a
\* nonzero status: in the Failed state the workspace never exists.
C1_FailedHasNoWorkspace == Failed => ~wsExists

\* ------------------------------------------------------------------ C2
\* C2: when the launcher, having reached Serving, shuts down because a
\* trigger (signal or duration timer) arrived on c, the workspace has been
\* deleted by the time it has exited, whatever clean_on_exit says.
C2_ShutdownDeletesWorkspace ==
    \A b \in BOOLEAN :
        (~Alive /\ ShutdownBegun /\ config.CleanOnExit = b)
            => (~wsExists /\ wsFiles = {} /\ removeCount = 1)

C2_Witness ==
    /\ Terminated /\ ShutdownBegun
    /\ config.CleanOnExit = FALSE
    /\ ~wsExists
    /\ timer = "done"

\* ------------------------------------------------------------------ C3
\* C3 (as claimed): once the child was spawned, the launcher never
\* terminates while the child is still running, wherever after the spawn
\* the signal arrives.
C3_NoOrphanChild == ~Alive => child # "running"

\* ------------------------------------------------------------------ C4
\* C4: the kill of the child precedes the deletion of the workspace: in no
\* state has the workspace of a run with a spawned child been deleted
\* while Kill has not yet been called.
C4_KillBeforeDelete == (removeCount > 0 /\ child # "none") => killCount > 0

C4_Witness == removeCount = 1 /\ child = "killed" /\ ~wsExists

\* ------------------------------------------------------------------ C5
\* C5: whatever the interleaving of signal deliveries and the duration
\* goroutine on the capacity-1 channel, one shutdown sequence runs: Kill
\* is called at most once, RemoveAll at most once, main is never left
\* blocked on c once a trigger has been delivered, and a trigger that
\* comes after shutdown began changes nothing of the shutdown.
C5_OneShutdown ==
    /\ [](/\ killCount <= 1
          /\ removeCount <= 1
          /\ (pc = "wait" /\ (timer = "done" \/ signalsSent > 0))
                => (Len(c) > 0 /\ ENABLED Receive))
    /\ [][ (ShutdownBegun /\ (c' # c \/ signalsSent' # signalsSent
                                  \/ timer' # timer))
             => UNCHANGED << pc, child, wsExists, killCount, removeCount,
                             exitCode >> ]_vars

C5_Witness ==
    /\ Terminated
    /\ killCount = 1 /\ removeCount = 1
    /\ timer = "done" /\ signalsSent = MaxSignals
    /\ Len(c) = 1

\* ------------------------------------------------------------------ C6
\* C6: with allowed_demo_duration_minutes > 0, a launcher that is Serving
\* shuts down and reaches Terminated by itself, even if no signal is ever
\* sent (FairSpec forces no signal).
C6_DurationExpiryTerminates ==
    (Serving /\ config.AllowedDemoDurationMinutes > 0)
        ~> (Terminated /\ ShutdownBegun /\ exitCode = 0)

C6_Witness ==
    /\ Terminated /\ signalsSent = 0
    /\ config.AllowedDemoDurationMinutes = 1
    /\ "Demo duration expired." \in log

\* ------------------------------------------------------------------ C7
\* C7: in a normal invocation the exit status is 0 exactly when the
\* shutdown sequence ran to Terminated; every startup failure (temp dir,
\* extraction, manifest read, manifest parse, free port, server start)
\* ends the process with a nonzero status.
C7_ExitStatus ==
    /\ ~uninstallFlag => (exitCode = 0 <=> (Terminated /\ ShutdownBegun))
    /\ failure # "none" => (Failed /\ exitCode = 1)
    /\ Failed => (exitCode # 0 /\ failure \in
                    {"mkdirTemp", "extract", "readManifest", "parseManifest",
                     "findPort", "startServer"})

C7_Witness == Failed /\ failure = "startServer" /\ exitCode = 1

\* ------------------------------------------------------------------ C8
\* C8 (as claimed): with the uninstall flag the launcher always exits with
\* status 0, whatever happens in the steps before the flag is examined.
C8_UninstallExitsZero == (uninstallFlag /\ pc \in {"done", "failed"}) => exitCode = 0

\* ------------------------------------------------------------------ C9
\* C9: an error of Kill (the child had already exited) is only printed:
\* the workspace is still deleted and the launcher reaches Terminated with
\* status 0; the shutdown cannot hang on an already-exited child.
C9_KillErrorSwallowed ==
    /\ []("Error killing server" \in log => Failed = FALSE)
    /\ []((Terminated /\ "Error killing server" \in log)
            => (~wsExists /\ removeCount = 1 /\ exitCode = 0))
    /\ ((pc = "kill" /\ child = "exited")
            ~> (Terminated /\ ~wsExists /\ exitCode = 0))

C9_Witness ==
    /\ Terminated /\ child = "exited"
    /\ "Error killing server" \in log
    /\ ~wsExists /\ exitCode = 0

\* ----------------------------------------------------------------- C10
\* C10: no step and no outcome of the browser goroutine changes main's
\* position, the child, the workspace or the exit status, and main leaves
\* Serving only by receiving a trigger from c.
C10_BrowserNeverAborts ==
    /\ [][ (browser # "none" /\ (browser' # browser \/ candIdx' # candIdx
                                   \/ spawned' # spawned))
             => UNCHANGED << pc, child, wsExists, wsFiles, exitCode,
                             failure >> ]_vars
    /\ [][ (Serving /\ pc' # pc) => (Len(c) > 0 /\ pc' = "kill") ]_vars
    /\ []("Error opening browser" \in log => ~Failed)

C10_Witness ==
    /\ Serving /\ browser = "done"
    /\ "Error opening browser" \in log
    /\ spawned = << >>
    /\ child = "running" /\ wsExists

\* ----------------------------------------------------------------- C11
\* The commands openBrowser tries on a platform with a configuration, in
\* order: the app-mode browsers when both width and height are set, then
\* the default opener where the platform has one.
OpenOrder(goos, cfg) ==
    (IF cfg.WindowWidth > 0 /\ cfg.WindowHeight > 0
        THEN AppCandidates(goos) ELSE << >>)
    \o (IF DefaultOpener(goos) = "" THEN << >> ELSE << DefaultOpener(goos) >>)

\* C11: openBrowser tries its candidates in the fixed order and stops at
\* the first successful spawn: the commands tried are a prefix of the
\* order, at most one command is ever spawned, it is the last one tried,
\* and a finished call that spawned nothing has tried the whole order.
C11_OrderedFirstSuccess ==
    /\ Len(tried) <= Len(OpenOrder(GOOS, config))
    /\ tried = SubSeq(OpenOrder(GOOS, config), 1, Len(tried))
    /\ Len(spawned) <= 1
    /\ spawned # << >> => (tried # << >> /\ spawned[1] = tried[Len(tried)]
                            /\ browser = "done")
    /\ (browser = "done" /\ spawned = << >>)
          => tried = OpenOrder(GOOS, config)

C11_Witness ==
    /\ GOOS = "windows"
    /\ tried = << "chrome", "msedge" >>
    /\ spawned = << "msedge" >>
    /\ browser = "done"

\* ----------------------------------------------------------------- C12
\* C12: with a nonzero php_port the server's bind port and the port of
\* the base URL are the configured value and getFreePort is never called;
\* with php_port = 0 both are the port of the throwaway listener, which is
\* closed before main goes on to use the port.
C12_PortSelection ==
    /\ config.PHPPort # 0 =>
          /\ probe = "none" /\ probePort = 0 /\ pc # "getFreePort"
          /\ child # "none" => bindPort = config.PHPPort
          /\ browser # "none" => urlPort = config.PHPPort
    /\ config.PHPPort = 0 =>
          /\ child # "none" =>
                (bindPort = probePort /\ probePort \in EphemeralPorts)
          /\ browser # "none" => urlPort = probePort
          /\ (child # "none" \/ pc = "startServer") => probe = "closed"
    /\ probe = "open" => (pc \in {"getFreePort", "killed"} /\ bindPort = 0)

C12_Witness ==
    /\ config.PHPPort = 0
    /\ child = "running" /\ browser = "sleeping"
    /\ probe = "closed"
    /\ bindPort = 49153 /\ urlPort = 49153

\* ----------------------------------------------------------------- C13
\* A variable name the environment can carry: not empty, without "=".
WellFormedKey(k) == k # << >> /\ \A i \in 1..Len(k) : k[i] # "="

\* cmd.Env is the inherited environment, then the demo flag, then the
\* configured variables in some order.
EnvLayout ==
    \E order \in RangeOrders(config.EnvVars) :
        cmdEnv = BuildEnv(osEnviron, config.DemoModeEnvKey, config.EnvVars,
                          order)

\* What the child observes: configured keys have their configured value,
\* the demo key is "true" unless configured, and inherited variables that
\* are neither configured nor the demo key keep their value.
EnvObserved ==
    /\ \A k \in DOMAIN config.EnvVars :
          Getenv(cmdEnv, k) # Unset => Getenv(cmdEnv, k) = config.EnvVars[k]
    /\ config.DemoModeEnvKey \notin DOMAIN config.EnvVars
          => Getenv(cmdEnv, config.DemoModeEnvKey) = TrueStr
    /\ \A i \in 1..Len(osEnviron) :
          (/\ KeyOf(osEnviron[i]) \notin DOMAIN config.EnvVars
           /\ KeyOf(osEnviron[i]) # config.DemoModeEnvKey)
             => Getenv(cmdEnv, KeyOf(osEnviron[i])) = ValOf(osEnviron[i])

\* C13 (as claimed): for every manifest, the child's environment is
\* inherited ++ demo flag ++ env_vars and is observed with last-write-wins
\* as described.
C13_EnvAsClaimed == child # "none" => (EnvLayout /\ EnvObserved)

\* C13 (amended): the same, for manifests whose demo_mode_env_key and
\* env_vars keys are variable names (non-empty, without "="); every
\* well-formed configured key is then observed with its configured value.
C13_EnvWellFormedKeys ==
    child # "none" =>
      /\ EnvLayout
      /\ (/\ WellFormedKey(config.DemoModeEnvKey)
           /\ \A k \in DOMAIN config.EnvVars : WellFormedKey(k))
            => /\ EnvObserved
               /\ \A k \in DOMAIN config.EnvVars :
                     Getenv(cmdEnv, k) = config.EnvVars[k]

C13_Witness ==
    /\ child = "running"
    /\ DOMAIN config.EnvVars = {KeyPath, KeyDemo, KeyFoo}
    /\ config.DemoModeEnvKey = KeyDemo
    /\ osEnviron = EnvironOf({KeyPath, KeyDemo})
    /\ Getenv(cmdEnv, KeyDemo) = ValConfigured
    /\ Getenv(cmdEnv, KeyPath) = ValConfigured
    /\ Len(cmdEnv) = 6

\* ----------------------------------------------------------------- C14
\* The relative paths of the embedded tree, and the content of its files.
SourcePaths == { bundleFS[i].path : i \in 1..Len(bundleFS) }
SourceFiles == { bundleFS[i].path : i \in { j \in 1..Len(bundleFS) :
                                               ~bundleFS[j].dir } }
SourceData(p) ==
    bundleFS[CHOOSE i \in 1..Len(bundleFS) : bundleFS[i].path = p].data

\* C14: once extractBundle has returned without error, and for as long
\* as the workspace is there, the paths under tempDir/bundle are exactly
\* the paths of the embedded tree, the files are exactly its files with
\* the same content, and the embedded tree is what it was.
C14_StructuralCopy ==
    /\ bundleFS = BundleEntries
    /\ (walkIdx > Len(bundleFS) /\ wsExists) =>
          /\ wsFiles = SourcePaths
          /\ DOMAIN wsData = SourceFiles
          /\ \A p \in SourceFiles : wsData[p] = SourceData(p)

C14_Witness ==
    /\ pc = "readManifest"
    /\ wsFiles = { << >>, << "app" >>, << "app", "public" >>,
                   << "app", "public", "index.php" >>, << "manifest.json" >> }
    /\ wsData[<< "app", "public", "index.php" >>] = "<?php index"
    /\ wsData[<< "manifest.json" >>] = "{ manifest }"

\* ----------------------------------------------------------------- C15
\* C15: with allowed_demo_duration_minutes = 0 (the value of an absent
\* field too) no duration goroutine is ever started; whatever arrives on
\* c was put there by a signal, main leaves Serving only by receiving it,
\* and while no signal has been sent main cannot leave Serving.
C15_NoExpiryWithoutDuration ==
    /\ [](config.AllowedDemoDurationMinutes = 0 =>
            (timer = "none" /\ "Demo duration expired." \notin log))
    /\ []((Serving /\ config.AllowedDemoDurationMinutes = 0
              /\ signalsSent = 0)
            => (c = << >> /\ ~ENABLED Receive /\ ~ENABLED Main))
    /\ [][ (Serving /\ config.AllowedDemoDurationMinutes = 0)
              => /\ (c = << >> /\ c' # << >>)
                       => signalsSent' = signalsSent + 1
                 /\ pc' # pc => (pc' = "kill" /\ signalsSent > 0) ]_vars

C15_Witness ==
    /\ Serving
    /\ config.AllowedDemoDurationMinutes = 0
    /\ timer = "none" /\ browser = "done"
    /\ signalsSent = 0 /\ c = << >>

\* ----------------------------------------------------------------- C16
\* Something of the entry into Serving has happened: the browser
\* goroutine was started, the signal watcher registered, the duration
\* goroutine started, or main waits on c.
ServingEntered ==
    browser # "none" \/ notified \/ timer # "none" \/ Serving

\* Extraction, manifest load, port selection and the spawn all succeeded.
SetupSucceeded ==
    /\ walkIdx > Len(bundleFS)
    /\ data = SourceData(ManifestPath)
    /\ config # ZeroManifest
    /\ port # 0
    /\ config.PHPPort = 0 => probe = "closed"
    /\ child # "none"
    /\ failure = "none"

\* C16: Serving is entered only after the whole setup succeeded; a run in
\* which a setup step failed has no server process, no browser goroutine
\* and no watcher, and the server is spawned only after extraction,
\* manifest load and port selection.
C16_ServingAfterSetup ==
    /\ ServingEntered => SetupSucceeded
    /\ failure # "none" =>
          (child = "none" /\ browser = "none" /\ ~notified
             /\ timer = "none")
    /\ child # "none" =>
          (walkIdx > Len(bundleFS) /\ config # ZeroManifest /\ port # 0)

C16_Witness ==
    /\ Serving /\ notified
    /\ browser = "sleeping" /\ timer = "sleeping"
    /\ child = "running" /\ failure = "none"
    /\ config.PHPPort = 0

\* ----------------------------------------------------------------- C17
\* The manifest has been read and parsed.
ConfigLoaded == data # "" /\ config # ZeroManifest
\* The manifest load has begun, succeeded or failed.
ConfigTouched ==
    \/ pc \in {"readManifest", "parseManifest"}
    \/ data # "" \/ config # ZeroManifest
    \/ failure \in {"readManifest", "parseManifest"}

\* C17 (as claimed): extraction begins only after the configuration was
\* loaded and the workspace created, so a manifest failure can only
\* happen before anything is extracted.
C17_ConfigBeforeExtraction ==
    /\ walkIdx > 1 => (ConfigLoaded /\ (wsExists \/ removeCount > 0))
    /\ failure \in {"readManifest", "parseManifest"} => walkIdx = 1

\* C17 (amended): extraction begins only after the workspace was created
\* and before any configuration is loaded: the manifest is read and
\* parsed only after extractBundle has extracted the whole bundle, so a
\* manifest failure can only happen after the extraction is complete.
C17_ExtractionBeforeConfig ==
    /\ walkIdx > 1 => (wsExists \/ removeCount > 0)
    /\ ConfigTouched => walkIdx > Len(bundleFS)
    /\ (pc = "extract" /\ walkIdx <= Len(bundleFS)) =>
          (data = "" /\ config = ZeroManifest)

C17_Witness ==
    /\ Failed /\ failure = "parseManifest"
    /\ walkIdx > Len(bundleFS)
    /\ data = "{ manifest }"
    /\ config = ZeroManifest

\* ----------------------------------------------------------------- C18
\* C18: the launcher does not watch its child.  The child's own exit
\* changes nothing in the launcher and puts nothing on c; with the child
\* gone main is still Serving, with the workspace on disk, and leaves
\* Serving only by receiving a message that a signal or the duration
\* goroutine put on c.
C18_ChildExitUnobserved ==
    /\ [][ (child = "running" /\ child' = "exited")
              => UNCHANGED << pc, wsExists, wsFiles, wsData, c, exitCode,
                              killCount, removeCount, log >> ]_vars
    /\ [][ (c = << >> /\ c' # << >>)
              => \/ signalsSent' = signalsSent + 1
                 \/ (timer = "sending" /\ timer' = "done") ]_vars
    /\ [][ (Serving /\ child = "exited" /\ pc' # pc)
              => (Len(c) > 0 /\ pc' = "kill") ]_vars
    /\ []((Serving /\ child = "exited") => (wsExists /\ exitCode = -1))

C18_Witness ==
    /\ Serving /\ child = "exited"
    /\ wsExists /\ c = << >>
    /\ signalsSent = 0 /\ timer = "none"

\* ----------------------------------------------------------------- C19
\* C19: a run with -uninstall never selects a port, never starts the
\* server, never starts the browser or duration goroutine and never
\* registers the signal watcher; when workspace creation, extraction and
\* manifest load succeed it prints its notice and exits 0 with the
\* workspace it had populated removed.
C19_UninstallDoesNothingElse ==
    /\ uninstallFlag =>
          /\ pc \notin {"findPort", "getFreePort", "startServer", "goBrowser",
                         "notify", "goTimer", "wait", "kill"}
          /\ port = 0 /\ probe = "none" /\ bindPort = 0 /\ urlPort = 0
          /\ child = "none" /\ cmdEnv = << >>
          /\ browser = "none" /\ timer = "none"
          /\ ~notified /\ c = << >>
    /\ (uninstallFlag /\ ~Alive /\ failure = "none" /\ pc # "killed") =>
          /\ Terminated /\ exitCode = 0
          /\ ~wsExists /\ wsFiles = {} /\ removeCount = 1
          /\ walkIdx > Len(bundleFS) /\ ConfigLoaded
          /\ "runs from temporary storage" \in log

C19_Witness ==
    /\ uninstallFlag /\ Terminated
    /\ ~wsExists /\ removeCount = 1
    /\ walkIdx > Len(bundleFS) /\ ConfigLoaded

====
